---- MODULE Spec2Model ----
(***************************************************************************)
(* Model of the Home component of pastens (src/app/page.tsx) and of the    *)
(* DomainPage wrapper (src/app/[domain]/page.tsx): the search state, the   *)
(* search history with its localStorage copy, and the route effect.        *)
(*                                                                         *)
(* Strings are sequences of one-character strings.  A nullable React state *)
(* (error, searchResults) is the empty set when null and a singleton set   *)
(* otherwise.  One Home instance is modelled: router.push updates its      *)
(* pathname and, through DomainPage, its initialDomain prop.               *)
(***************************************************************************)
EXTENDS Integers, Sequences, FiniteSets, TLC

VARIABLES
    ensName,        \* useState("")            page.tsx:21
    isSearching,    \* useState(false)         page.tsx:22
    error,          \* useState(null)          page.tsx:23
    searchResults,  \* useState(null)          page.tsx:24
    searchHistory,  \* useState([])            page.tsx:35
    showHistory,    \* useState(false)         page.tsx:36
    storage,        \* localStorage[SEARCH_HISTORY_KEY]
    pathname,       \* usePathname()
    initialDomain,  \* props.initialDomain (<<>> when undefined)
    historyLoaded,  \* the mount effect of lines 40-49 has run
    routeDeps,      \* dependencies the route effect last ran with
    inflight,       \* ids of the performSearch calls awaiting fetch
    searches,       \* one record per performSearch invocation
    events,         \* side effects in the order the code performed them
    errorOf,        \* id of the invocation that set the current error (0: none)
    resultOf,       \* id of the invocation that set the current result (0: none)
    histOps         \* operations applied by the history-only specification

vars == <<ensName, isSearching, error, searchResults, searchHistory,
          showHistory, storage, pathname, initialDomain, historyLoaded,
          routeDeps, inflight, searches, events, errorOf, resultOf, histOps>>

(***************************************************************************)
(* Bounds                                                                  *)
(***************************************************************************)
\* performSearch invocations explored in one behaviour
MaxSearches == 2

\* distinct names offered to the history-only specification
NumHistNames == 11

\* saveToHistory / removeFromHistory calls the history-only specification
\* applies to each of its initial histories
MaxHistOps == 2

\* length of the raw inputs the normalization-only specification starts from
MaxNormLen == 5

(***************************************************************************)
(* Program constants                                                       *)
(***************************************************************************)
MAX_SEARCH_HISTORY == 10

RateLimitMessage ==
    "Rate limit exceeded. The Graph API is temporarily rate-limiting requests. Please wait a few moments and try again."

DefaultMessage == "Failed to fetch ENS history. Please try again."

\* message of the SyntaxError thrown by response.json() / JSON.parse
JsonSyntaxErrorMessage == "Unexpected token < in JSON at position 0"

Null == {}

Some(v) == {v}

(***************************************************************************)
(* String functions of JavaScript, on sequences of characters              *)
(***************************************************************************)
UpperLetters ==
    <<"A", "B", "C", "D", "E", "F", "G", "H", "I", "J", "K", "L", "M",
      "N", "O", "P", "Q", "R", "S", "T", "U", "V", "W", "X", "Y", "Z">>

LowerLetters ==
    <<"a", "b", "c", "d", "e", "f", "g", "h", "i", "j", "k", "l", "m",
      "n", "o", "p", "q", "r", "s", "t", "u", "v", "w", "x", "y", "z">>

LowerChar(c) ==
    IF \E i \in DOMAIN UpperLetters : UpperLetters[i] = c
    THEN LowerLetters[CHOOSE i \in DOMAIN UpperLetters : UpperLetters[i] = c]
    ELSE c

ToLowerCase(s) == [i \in 1..Len(s) |-> LowerChar(s[i])]

IsWhitespace(c) == c = " "

Trim(s) ==
    LET keep == {i \in 1..Len(s) : ~IsWhitespace(s[i])}
    IN  IF keep = {} THEN <<>>
        ELSE LET lo == CHOOSE i \in keep : \A j \in keep : i <= j
                 hi == CHOOSE i \in keep : \A j \in keep : j <= i
             IN  SubSeq(s, lo, hi)

EndsWith(s, suffix) ==
    /\ Len(s) >= Len(suffix)
    /\ SubSeq(s, Len(s) - Len(suffix) + 1, Len(s)) = suffix

Slice1(s) == SubSeq(s, 2, Len(s))

DotEth == <<".", "e", "t", "h">>

(***************************************************************************)
(* JSON.stringify / JSON.parse of an array of strings                      *)
(***************************************************************************)
Quote == "\""

Backslash == "\\"

RECURSIVE JsonEscape(_)
JsonEscape(s) ==
    IF s = <<>> THEN <<>>
    ELSE (IF Head(s) = Quote \/ Head(s) = Backslash
          THEN <<Backslash, Head(s)>> ELSE <<Head(s)>>) \o JsonEscape(Tail(s))

JsonString(s) == <<Quote>> \o JsonEscape(s) \o <<Quote>>

RECURSIVE JsonElements(_)
JsonElements(list) ==
    IF list = <<>> THEN <<>>
    ELSE IF Len(list) = 1 THEN JsonString(Head(list))
    ELSE JsonString(Head(list)) \o <<",">> \o JsonElements(Tail(list))

JsonStringify(list) == <<"[">> \o JsonElements(list) \o <<"]">>

ParseFailure == [ok |-> FALSE, val |-> <<>>, next |-> 0]

\* the string literal whose opening quote is at t[i - 1]
RECURSIVE ScanString(_, _, _)
ScanString(t, i, acc) ==
    IF i > Len(t) THEN ParseFailure
    ELSE IF t[i] = Quote THEN [ok |-> TRUE, val |-> acc, next |-> i + 1]
    ELSE IF t[i] = Backslash
         THEN IF i + 1 <= Len(t) /\ (t[i + 1] = Quote \/ t[i + 1] = Backslash)
              THEN ScanString(t, i + 2, Append(acc, t[i + 1]))
              ELSE ParseFailure
    ELSE ScanString(t, i + 1, Append(acc, t[i]))

RECURSIVE ParseElements(_, _, _)
ParseElements(t, i, acc) ==
    IF i > Len(t) \/ t[i] # Quote THEN ParseFailure
    ELSE LET r == ScanString(t, i + 1, <<>>)
         IN  IF ~r.ok \/ r.next > Len(t) THEN ParseFailure
             ELSE IF t[r.next] = "," THEN ParseElements(t, r.next + 1, Append(acc, r.val))
             ELSE IF t[r.next] = "]" /\ r.next = Len(t)
                  THEN [ok |-> TRUE, val |-> Append(acc, r.val), next |-> r.next + 1]
             ELSE ParseFailure

\* ok = FALSE stands for the SyntaxError JSON.parse throws
JsonParse(t) ==
    IF Len(t) < 2 \/ t[1] # "[" THEN ParseFailure
    ELSE IF t = <<"[", "]">> THEN [ok |-> TRUE, val |-> <<>>, next |-> 3]
    ELSE ParseElements(t, 2, <<>>)

(***************************************************************************)
(* Percent-encoding of a path segment, and decodeURIComponent              *)
(***************************************************************************)
RECURSIVE EncodeSegment(_)
EncodeSegment(s) ==
    IF s = <<>> THEN <<>>
    ELSE (IF Head(s) = " " THEN <<"%", "2", "0">> ELSE <<Head(s)>>)
         \o EncodeSegment(Tail(s))

RECURSIVE DecodeURIComponent(_)
DecodeURIComponent(s) ==
    IF s = <<>> THEN <<>>
    ELSE IF Len(s) >= 3 /\ SubSeq(s, 1, 3) = <<"%", "2", "0">>
         THEN <<" ">> \o DecodeURIComponent(SubSeq(s, 4, Len(s)))
    ELSE <<Head(s)>> \o DecodeURIComponent(Tail(s))

Root == <<"/">>

\* the pathname the router reports after router.push(path)
RouterPush(path) == Root \o EncodeSegment(Slice1(path))

\* initialDomain as DomainPage passes it; the root page passes none
DomainPage(path) ==
    IF path = Root THEN <<>> ELSE DecodeURIComponent(Slice1(path))

(***************************************************************************)
(* Inputs                                                                  *)
(***************************************************************************)
\* what a user types, what the leaderboard offers, what a route encodes
RawInputs == { <<" ">>, <<"a">>, <<"B">>, <<"a", ".", "e", "t", "h">> }

TypedInputs == { <<"B">> }

LeaderboardNames == { <<"a">>, <<"B">> }

\* decoded first path segment of the URL the page is opened with (<<>>: "/")
InitialRoutes == { <<>>, <<" ">>, <<"a", " ", "b">>, <<"a", ".", "e", "t", "h">> }

Absent == [present |-> FALSE, text |-> <<>>]

Stored(text) == [present |-> TRUE, text |-> text]

\* localStorage content the page can be opened with
InitialStorage ==
    { Absent,
      Stored(JsonStringify(<< <<"a", ".", "e", "t", "h">> >>)),
      Stored(<<"{">>) }

\* status and body of a settled fetch; error = "" when the body has no such field
Responses ==
    [kind : {"reject"}, status : {0}, parses : {FALSE},
     message : {"", "Failed to fetch"}]
    \cup [kind : {"response"}, status : {200}, parses : BOOLEAN, message : {""}]
    \cup [kind : {"response"}, status : {429, 500}, parses : {FALSE}, message : {""}]
    \cup [kind : {"response"}, status : {429, 500}, parses : {TRUE},
          message : {"", "slow down"}]

(***************************************************************************)
(* Pure parts of the handlers                                              *)
(***************************************************************************)
\* a || b on strings
OrElse(a, b) == IF a # "" THEN a ELSE b

\* the normalization that appends the suffix whatever the name ends in
Normalize_AlwaysAppends(name) == ToLowerCase(Trim(name)) \o DotEth

\* the normalization without toLowerCase
Normalize_KeepsCase(name) ==
    LET searchName == Trim(name)
    IN  IF EndsWith(searchName, DotEth) THEN searchName ELSE searchName \o DotEth

\* performSearch, lines 111-114
Normalize(name) ==
    LET searchName == ToLowerCase(Trim(name))
    IN  IF EndsWith(searchName, DotEth) THEN searchName ELSE searchName \o DotEth

\* updateURL that leaves the route where it is
UpdateURL_StaysHome(name) == Root

\* updateURL, lines 100-107: the path handed to router.push
UpdateURL(name) ==
    LET normalizedName == ToLowerCase(Trim(name))
    IN  IF normalizedName # <<>> THEN Root \o normalizedName ELSE Root

Slice(list, n) == SubSeq(list, 1, IF Len(list) < n THEN Len(list) ELSE n)

\* saveToHistory without the slice to MAX_SEARCH_HISTORY
SavedHistory_NoCap(prev, normalizedName) ==
    LET differs(item) == ToLowerCase(item) # normalizedName
    IN  <<normalizedName>> \o SelectSeq(prev, differs)

\* the updater of saveToHistory, lines 90-96
SavedHistory(prev, normalizedName) ==
    LET differs(item) == ToLowerCase(item) # normalizedName
        filtered == SelectSeq(prev, differs)
    IN  Slice(<<normalizedName>> \o filtered, MAX_SEARCH_HISTORY)

\* the updater of removeFromHistory, lines 183-191
RemovedHistory(prev, name) ==
    LET differs(item) == ToLowerCase(item) # ToLowerCase(name)
    IN  SelectSeq(prev, differs)

\* what a settled fetch makes of performSearch, lines 124-154:
\* the message given to setError, or "" when the search succeeds
ErrorOutcome(resp) ==
    IF resp.kind = "reject" THEN OrElse(resp.message, DefaultMessage)
    ELSE IF ~(resp.status >= 200 /\ resp.status <= 299)
         THEN IF ~resp.parses THEN OrElse(JsonSyntaxErrorMessage, DefaultMessage)
              ELSE IF resp.status = 429 THEN OrElse(resp.message, RateLimitMessage)
              ELSE OrElse(resp.message, DefaultMessage)
    ELSE IF ~resp.parses THEN OrElse(JsonSyntaxErrorMessage, DefaultMessage)
    ELSE ""

Range(f) == {f[i] : i \in DOMAIN f}

Event(type, id) == [type |-> type, id |-> id]

NoDeps == <<>>

Mounted == historyLoaded /\ routeDeps # NoDeps

DropdownVisible == showHistory /\ Len(searchHistory) > 0

(***************************************************************************)
(* Initial state: the first render, before any effect has run              *)
(***************************************************************************)
Init ==
    /\ ensName = <<>>
    /\ isSearching = FALSE
    /\ error = Null
    /\ searchResults = Null
    /\ searchHistory = <<>>
    /\ showHistory = FALSE
    /\ storage \in InitialStorage
    /\ \E d \in InitialRoutes :
          /\ pathname = Root \o EncodeSegment(d)
          /\ initialDomain = DomainPage(pathname)
    /\ historyLoaded = FALSE
    /\ routeDeps = NoDeps
    /\ inflight = {}
    /\ searches = <<>>
    /\ events = <<>>
    /\ errorOf = 0
    /\ resultOf = 0
    /\ histOps = 0

(***************************************************************************)
(* Handler bodies                                                          *)
(***************************************************************************)
\* saveToHistory persisting the list it was given instead of the updated one
SaveToHistory_PersistsPrev(name) ==
    LET normalizedName == ToLowerCase(Trim(name))
    IN  IF normalizedName = <<>>
        THEN UNCHANGED <<searchHistory, storage>>
        ELSE /\ storage' = Stored(JsonStringify(searchHistory))
             /\ searchHistory' = SavedHistory(searchHistory, normalizedName)

\* saveToHistory, lines 86-97
SaveToHistory(name) ==
    LET normalizedName == ToLowerCase(Trim(name))
    IN  IF normalizedName = <<>>
        THEN UNCHANGED <<searchHistory, storage>>
        ELSE LET updated == SavedHistory(searchHistory, normalizedName)
             IN  /\ storage' = Stored(JsonStringify(updated))
                 /\ searchHistory' = updated

\* removeFromHistory without the close of the dropdown
RemoveFromHistory_StaysOpen(name) ==
    LET updated == RemovedHistory(searchHistory, name)
    IN  /\ storage' = Stored(JsonStringify(updated))
        /\ showHistory' = showHistory
        /\ searchHistory' = updated

\* removeFromHistory, lines 181-192
RemoveFromHistory(name) ==
    LET updated == RemovedHistory(searchHistory, name)
    IN  /\ storage' = Stored(JsonStringify(updated))
        /\ showHistory' = IF Len(updated) = 0 THEN FALSE ELSE showHistory
        /\ searchHistory' = updated

\* performSearch issuing the fetch before it updates the URL
PerformSearch_FetchFirst(name, entry) ==
    LET searchName == Normalize(name)
        id == Len(searches) + 1
    IN  /\ Len(searches) < MaxSearches
        /\ isSearching' = TRUE
        /\ searchResults' = Null
        /\ error' = Null
        /\ showHistory' = FALSE
        /\ errorOf' = 0
        /\ resultOf' = 0
        /\ pathname' = RouterPush(UpdateURL(searchName))
        /\ initialDomain' = DomainPage(pathname')
        /\ searches' = Append(searches,
                              [raw |-> name, term |-> searchName, entry |-> entry])
        /\ events' = events \o <<Event("fetch", id), Event("push", id)>>
        /\ inflight' = inflight \cup {id}
        /\ UNCHANGED <<searchHistory, storage, historyLoaded, histOps>>

\* performSearch without the setError(null) of line 118
PerformSearch_KeepsError(name, entry) ==
    LET searchName == Normalize(name)
        id == Len(searches) + 1
    IN  /\ Len(searches) < MaxSearches
        /\ isSearching' = TRUE
        /\ searchResults' = Null
        /\ showHistory' = FALSE
        /\ resultOf' = 0
        /\ pathname' = RouterPush(UpdateURL(searchName))
        /\ initialDomain' = DomainPage(pathname')
        /\ searches' = Append(searches,
                              [raw |-> name, term |-> searchName, entry |-> entry])
        /\ events' = events \o <<Event("push", id), Event("fetch", id)>>
        /\ inflight' = inflight \cup {id}
        /\ UNCHANGED <<error, errorOf, searchHistory, storage, historyLoaded,
                       histOps>>

\* performSearch up to its first await, lines 109-126
PerformSearch(name, entry) ==
    LET searchName == Normalize(name)
        id == Len(searches) + 1
    IN  /\ Len(searches) < MaxSearches
        /\ isSearching' = TRUE
        /\ searchResults' = Null
        /\ error' = Null
        /\ showHistory' = FALSE
        /\ errorOf' = 0
        /\ resultOf' = 0
        /\ pathname' = RouterPush(UpdateURL(searchName))
        /\ initialDomain' = DomainPage(pathname')
        /\ searches' = Append(searches,
                              [raw |-> name, term |-> searchName, entry |-> entry])
        /\ events' = events \o <<Event("push", id), Event("fetch", id)>>
        /\ inflight' = inflight \cup {id}
        /\ UNCHANGED <<searchHistory, storage, historyLoaded, histOps>>

\* performSearch saving the term to the history whatever the outcome
Settle_RecordsOnError(id, resp) ==
    LET message == ErrorOutcome(resp)
        term == searches[id].term
    IN  /\ inflight' = inflight \ {id}
        /\ SaveToHistory(term)
        /\ IF message # ""
           THEN /\ error' = Some(message)
                /\ errorOf' = id
                /\ events' = Append(events, Event("fail", id))
                /\ UNCHANGED <<searchResults, resultOf>>
           ELSE /\ searchResults' = Some([name |-> term])
                /\ resultOf' = id
                /\ events' = events \o <<Event("ok", id), Event("record", id)>>
                /\ UNCHANGED <<error, errorOf>>
        /\ isSearching' = FALSE

\* performSearch fetching once more when the outcome is an error
Settle_RetriesOnError(id, resp) ==
    LET message == ErrorOutcome(resp)
        term == searches[id].term
    IN  IF message # ""
        THEN /\ error' = Some(message)
             /\ errorOf' = id
             /\ events' = events \o <<Event("fail", id), Event("fetch", id)>>
             /\ isSearching' = FALSE
             /\ UNCHANGED <<inflight, searchResults, resultOf, searchHistory,
                            storage>>
        ELSE /\ inflight' = inflight \ {id}
             /\ searchResults' = Some([name |-> term])
             /\ resultOf' = id
             /\ SaveToHistory(term)
             /\ events' = events \o <<Event("ok", id), Event("record", id)>>
             /\ isSearching' = FALSE
             /\ UNCHANGED <<error, errorOf>>

\* performSearch from the settling of its fetch on, lines 126-154
Settle(id, resp) ==
    LET message == ErrorOutcome(resp)
        term == searches[id].term
    IN  /\ inflight' = inflight \ {id}
        /\ IF message # ""
           THEN /\ error' = Some(message)
                /\ errorOf' = id
                /\ events' = Append(events, Event("fail", id))
                /\ UNCHANGED <<searchResults, resultOf, searchHistory, storage>>
           ELSE /\ searchResults' = Some([name |-> term])
                /\ resultOf' = id
                /\ SaveToHistory(term)
                /\ events' = events \o <<Event("ok", id), Event("record", id)>>
                /\ UNCHANGED <<error, errorOf>>
        /\ isSearching' = FALSE

\* the load effect without its catch: the parse error reaches the page
LoadHistoryEffect_SurfacesError ==
    /\ ~historyLoaded
    /\ historyLoaded' = TRUE
    /\ IF storage.present /\ storage.text # <<>> /\ JsonParse(storage.text).ok
       THEN searchHistory' = JsonParse(storage.text).val /\ UNCHANGED error
       ELSE /\ UNCHANGED searchHistory
            /\ error' = IF storage.present /\ storage.text # <<>>
                        THEN Some(JsonSyntaxErrorMessage) ELSE error
    /\ UNCHANGED <<ensName, isSearching, searchResults, showHistory,
                   storage, pathname, initialDomain, routeDeps, inflight,
                   searches, events, errorOf, resultOf, histOps>>

(***************************************************************************)
(* Actions                                                                 *)
(***************************************************************************)
\* the mount effect of lines 40-49
LoadHistoryEffect ==
    /\ ~historyLoaded
    /\ historyLoaded' = TRUE
    /\ IF storage.present /\ storage.text # <<>> /\ JsonParse(storage.text).ok
       THEN searchHistory' = JsonParse(storage.text).val
       ELSE UNCHANGED searchHistory
    /\ UNCHANGED <<ensName, isSearching, error, searchResults, showHistory,
                   storage, pathname, initialDomain, routeDeps, inflight,
                   searches, events, errorOf, resultOf, histOps>>

\* the effect of lines 52-68: after mount and whenever its dependencies change
RouteEffect ==
    /\ historyLoaded
    /\ routeDeps # <<pathname, initialDomain>>
    /\ routeDeps' = <<pathname, initialDomain>>
    /\ LET entry == IF routeDeps = NoDeps THEN "mount" ELSE "reroute"
       IN  IF initialDomain # <<>>
           THEN /\ ensName' = initialDomain
                /\ PerformSearch(initialDomain, entry)
           ELSE IF pathname # Root /\ Slice1(pathname) # <<>>
                THEN /\ ensName' = Slice1(pathname)
                     /\ PerformSearch(Slice1(pathname), entry)
                ELSE UNCHANGED <<ensName, isSearching, error, searchResults,
                                 searchHistory, showHistory, storage, pathname,
                                 initialDomain, historyLoaded, inflight,
                                 searches, events, errorOf, resultOf, histOps>>

\* onChange of the input, line 284 (the input is disabled while searching)
OnChange ==
    /\ Mounted
    /\ ~isSearching
    /\ \E value \in TypedInputs : ensName' = ToLowerCase(value)
    /\ UNCHANGED <<isSearching, error, searchResults, searchHistory, showHistory,
                   storage, pathname, initialDomain, historyLoaded, routeDeps,
                   inflight, searches, events, errorOf, resultOf, histOps>>

\* handleSearch, lines 157-161 (the form cannot be submitted while searching)
HandleSearch ==
    /\ Mounted
    /\ ~isSearching
    /\ IF Trim(ensName) = <<>>
       THEN UNCHANGED <<ensName, isSearching, error, searchResults, searchHistory,
                        showHistory, storage, pathname, initialDomain,
                        historyLoaded, routeDeps, inflight, searches, events,
                        errorOf, resultOf, histOps>>
       ELSE /\ PerformSearch(ensName, "form")
            /\ UNCHANGED <<ensName, routeDeps>>

\* handleLeaderboardClick, lines 163-173
HandleLeaderboardClick ==
    /\ Mounted
    /\ \E name \in LeaderboardNames :
          /\ ensName' = name
          /\ PerformSearch(name, "leaderboard")
    /\ UNCHANGED routeDeps

\* handleHistoryClick, lines 175-179, on an entry of the open dropdown
HandleHistoryClick ==
    /\ Mounted
    /\ DropdownVisible
    /\ \E name \in Range(searchHistory) :
          /\ ensName' = name
          /\ PerformSearch(name, "history")
    /\ UNCHANGED routeDeps

\* the X of an entry of the open dropdown, line 329
RemoveClick ==
    /\ Mounted
    /\ DropdownVisible
    /\ \E name \in Range(searchHistory) : RemoveFromHistory(name)
    /\ UNCHANGED <<ensName, isSearching, error, searchResults, pathname,
                   initialDomain, historyLoaded, routeDeps, inflight, searches,
                   events, errorOf, resultOf, histOps>>

\* the toggle rendered whatever the history holds
ToggleHistory_AlwaysRendered ==
    /\ Mounted
    /\ showHistory' = ~showHistory
    /\ UNCHANGED <<ensName, isSearching, error, searchResults, searchHistory,
                   storage, pathname, initialDomain, historyLoaded, routeDeps,
                   inflight, searches, events, errorOf, resultOf, histOps>>

\* the history button, lines 291-300
ToggleHistory ==
    /\ Mounted
    /\ Len(searchHistory) > 0
    /\ showHistory' = ~showHistory
    /\ UNCHANGED <<ensName, isSearching, error, searchResults, searchHistory,
                   storage, pathname, initialDomain, historyLoaded, routeDeps,
                   inflight, searches, events, errorOf, resultOf, histOps>>

\* handleClickOutside, lines 72-77, and the dropdown's close button, line 314
CloseHistory ==
    /\ Mounted
    /\ showHistory
    /\ showHistory' = FALSE
    /\ UNCHANGED <<ensName, isSearching, error, searchResults, searchHistory,
                   storage, pathname, initialDomain, historyLoaded, routeDeps,
                   inflight, searches, events, errorOf, resultOf, histOps>>

\* a pending fetch settles and performSearch runs to its end
FetchSettles ==
    /\ \E id \in inflight : \E resp \in Responses : Settle(id, resp)
    /\ UNCHANGED <<ensName, showHistory, pathname, initialDomain, historyLoaded,
                   routeDeps, searches, histOps>>

Next ==
    \/ LoadHistoryEffect
    \/ RouteEffect
    \/ OnChange
    \/ HandleSearch
    \/ HandleLeaderboardClick
    \/ HandleHistoryClick
    \/ RemoveClick
    \/ ToggleHistory
    \/ CloseHistory
    \/ FetchSettles

Spec == Init /\ [][Next]_vars

(***************************************************************************)
(* The history alone: saveToHistory and removeFromHistory applied to the   *)
(* histories that successful searches for distinct names leave behind,     *)
(* with more names than the history can hold                               *)
(***************************************************************************)
HistName(k) == <<LowerLetters[k]>> \o DotEth

HistNameUpper(k) == <<UpperLetters[k]>> \o DotEth

\* the names also offered in upper case: the oldest and the newest
UpperCased == {1, MAX_SEARCH_HISTORY}

HistInputs ==
    {HistName(k) : k \in 1..NumHistNames}
    \cup {HistNameUpper(k) : k \in UpperCased}

\* the history after successful searches for the first k names
RECURSIVE Filled(_)
Filled(k) ==
    IF k = 0 THEN <<>> ELSE SavedHistory(Filled(k - 1), HistName(k))

InitHist ==
    /\ ensName = <<>>
    /\ isSearching = FALSE
    /\ error = Null
    /\ searchResults = Null
    /\ \E k \in 0..MAX_SEARCH_HISTORY :
          /\ searchHistory = Filled(k)
          /\ storage = IF k = 0 THEN Absent ELSE Stored(JsonStringify(Filled(k)))
    /\ showHistory = FALSE
    /\ pathname = Root
    /\ initialDomain = <<>>
    /\ historyLoaded = TRUE
    /\ routeDeps = <<Root, <<>>>>
    /\ inflight = {}
    /\ searches = <<>>
    /\ events = <<>>
    /\ errorOf = 0
    /\ resultOf = 0
    /\ histOps = 0

HistRecord ==
    /\ histOps < MaxHistOps
    /\ histOps' = histOps + 1
    /\ \E name \in HistInputs : SaveToHistory(name)
    /\ UNCHANGED <<ensName, isSearching, error, searchResults, showHistory,
                   pathname, initialDomain, historyLoaded, routeDeps, inflight,
                   searches, events, errorOf, resultOf>>

HistRemove ==
    /\ histOps < MaxHistOps
    /\ histOps' = histOps + 1
    /\ DropdownVisible
    /\ \E name \in Range(searchHistory) : RemoveFromHistory(name)
    /\ UNCHANGED <<ensName, isSearching, error, searchResults, pathname,
                   initialDomain, historyLoaded, routeDeps, inflight, searches,
                   events, errorOf, resultOf>>

NextHist ==
    \/ HistRecord
    \/ HistRemove
    \/ ToggleHistory
    \/ CloseHistory

SpecHist == InitHist /\ [][NextHist]_vars

(***************************************************************************)
(* The normalization alone: lines 111-114 of performSearch applied to the  *)
(* content of the input, for every short string over a small alphabet      *)
(***************************************************************************)
NormAlphabet == {" ", "A", ".", "e", "t", "h", "H"}

NormInputs == UNION {[1..n -> NormAlphabet] : n \in 0..MaxNormLen}

InitNorm ==
    /\ ensName \in NormInputs
    /\ isSearching = FALSE
    /\ error = Null
    /\ searchResults = Null
    /\ searchHistory = <<>>
    /\ showHistory = FALSE
    /\ storage = Absent
    /\ pathname = Root
    /\ initialDomain = <<>>
    /\ historyLoaded = TRUE
    /\ routeDeps = <<Root, <<>>>>
    /\ inflight = {}
    /\ searches = <<>>
    /\ events = <<>>
    /\ errorOf = 0
    /\ resultOf = 0
    /\ histOps = 0

NormalizeStep ==
    /\ ensName' = Normalize(ensName)
    /\ UNCHANGED <<isSearching, error, searchResults, searchHistory, showHistory,
                   storage, pathname, initialDomain, historyLoaded, routeDeps,
                   inflight, searches, events, errorOf, resultOf, histOps>>

NextNorm == NormalizeStep

SpecNorm == InitNorm /\ [][NextNorm]_vars

(***************************************************************************)
(* One search and the route feedback that follows it: the page mounts, the *)
(* user submits at most one search when the route has not started one, the *)
(* route effect runs whenever its dependencies changed, fetches settle     *)
(***************************************************************************)
FirstHandleSearch == searches = <<>> /\ HandleSearch

FirstLeaderboardClick == searches = <<>> /\ HandleLeaderboardClick

NextSingle ==
    \/ LoadHistoryEffect
    \/ RouteEffect
    \/ OnChange
    \/ FirstHandleSearch
    \/ FirstLeaderboardClick
    \/ FetchSettles

\* the route effect is due: its dependencies differ from those of its last
\* run, and the search it would start is within the bound
RouteEffectPending ==
    /\ historyLoaded
    /\ routeDeps # <<pathname, initialDomain>>
    /\ (initialDomain # <<>> \/ (pathname # Root /\ Slice1(pathname) # <<>>))
          => Len(searches) < MaxSearches

\* React runs a pending effect after the render that changed its
\* dependencies; a fetch resolves or rejects.  The fairness of the route
\* effect is weak fairness written out, with RouteEffectPending for
\* ENABLED <<RouteEffect>>_vars
SpecSingle ==
    /\ Init
    /\ [][NextSingle]_vars
    /\ WF_vars(LoadHistoryEffect)
    /\ ([]<>(~RouteEffectPending) \/ []<><<RouteEffect>>_vars)
    /\ WF_vars(FetchSettles)

(***************************************************************************)
(* Properties                                                              *)
(***************************************************************************)
\* position of an event in the log of side effects, 0 when it is not there
EventIndex(e) ==
    IF \E n \in DOMAIN events : events[n] = e
    THEN CHOOSE n \in DOMAIN events : events[n] = e
    ELSE 0

StartedAt(id) == EventIndex(Event("fetch", id))

SettledAt(id) ==
    IF EventIndex(Event("ok", id)) # 0 THEN EventIndex(Event("ok", id))
    ELSE EventIndex(Event("fail", id))

AEth == <<"a", ".", "e", "t", "h">>

BEth == <<"b", ".", "e", "t", "h">>

\* names the history can hold without any search: those of the stored lists
InitialHistoryNames ==
    UNION {Range(JsonParse(st.text).val) :
              st \in {x \in InitialStorage : x.present /\ JsonParse(x.text).ok}}

UserEntries == {"form", "leaderboard", "history"}

\* C1: when a user starts search i for one term and then search j for
\* another, and i settles after j has settled, nothing on display comes
\* from i once both have settled; and if j is the latest search, the display
\* is exactly j's outcome.
C1_StaleResponseDiscarded ==
    \A i, j \in DOMAIN searches :
        (/\ i < j
         /\ searches[i].entry \in UserEntries
         /\ searches[j].entry \in UserEntries
         /\ searches[i].term # searches[j].term
         /\ SettledAt(i) # 0
         /\ SettledAt(j) # 0
         /\ SettledAt(j) < SettledAt(i))
        => /\ errorOf # i
           /\ resultOf # i
           /\ j = Len(searches) =>
                 /\ errorOf \in {0, j}
                 /\ resultOf \in {0, j}
                 /\ (errorOf = j) # (resultOf = j)

\* C2: at most one of Loading (isSearching), Error (error non-null) and
\* Success (searchResults non-null) holds in every reachable state.
C2_OneVariantActive ==
    Cardinality({v \in {"loading", "error", "success"} :
                    \/ v = "loading" /\ isSearching
                    \/ v = "error" /\ error # Null
                    \/ v = "success" /\ searchResults # Null}) <= 1

\* C3: after any saveToHistory and removeFromHistory calls the history has
\* at most MAX_SEARCH_HISTORY entries, no two of them equal when lower-cased.
C3_HistoryBoundedAndDistinct ==
    /\ Len(searchHistory) <= MAX_SEARCH_HISTORY
    /\ \A i, j \in DOMAIN searchHistory :
          ToLowerCase(searchHistory[i]) = ToLowerCase(searchHistory[j]) => i = j

\* two calls on a full history: the oldest entry, recorded again, moved to
\* the front, and then a new name evicted the entry that had become oldest
C3_Witness ==
    /\ histOps = 2
    /\ Len(searchHistory) = MAX_SEARCH_HISTORY
    /\ searchHistory[1] = HistName(MAX_SEARCH_HISTORY + 1)
    /\ searchHistory[2] = HistName(1)
    /\ HistName(2) \notin Range(searchHistory)

\* C4: every fetch is preceded by the router.push of the same invocation,
\* every history record by the successful response of the same invocation,
\* and a name enters the history only after a successful response for it.
C4_SideEffectOrder ==
    /\ \A n \in DOMAIN events :
          /\ events[n].type = "fetch" =>
                \E m \in 1..(n - 1) : events[m] = Event("push", events[n].id)
          /\ events[n].type = "record" =>
                \E m \in 1..(n - 1) : events[m] = Event("ok", events[n].id)
    /\ \A name \in Range(searchHistory) \ InitialHistoryNames :
          \E n \in DOMAIN events :
              /\ events[n].type = "ok"
              /\ searches[events[n].id].term = name

\* a search for "B" has pushed, fetched, succeeded and been recorded
C4_Witness ==
    /\ \E n \in DOMAIN events : events[n].type = "record"
    /\ BEth \in Range(searchHistory)
    /\ pathname = Root \o BEth

RateLimitedWithMessage ==
    [kind |-> "response", status |-> 429, parses |-> TRUE, message |-> "slow down"]

\* C5: a search whose lookup returns 429 with a body {"error": "slow down"}
\* ends with error set to the rate-limit message.
C5_RateLimitMessage ==
    [][\A id \in inflight :
          Settle(id, RateLimitedWithMessage) => error' = Some(RateLimitMessage)]_vars

ServerErrorUnparseable ==
    [kind |-> "response", status |-> 500, parses |-> FALSE, message |-> ""]

\* C6: a search whose lookup returns 500 with a body that is not JSON ends
\* with error set to the default message.
C6_DefaultMessage ==
    [][\A id \in inflight :
          Settle(id, ServerErrorUnparseable) => error' = Some(DefaultMessage)]_vars

\* C7: an invocation whose input is empty after trimming does nothing: no
\* router.push and no fetch is ever made for it.
C7_BlankInputNoOp ==
    \A n \in DOMAIN events : Trim(searches[events[n].id].raw) # <<>>

\* C8: the route effect invokes search at most once, on mount; the route
\* update of a search never makes the effect invoke search again.
C8_RouteSearchOnce ==
    /\ \A i \in DOMAIN searches : searches[i].entry # "reroute"
    /\ Cardinality({i \in DOMAIN searches :
                       searches[i].entry \in {"mount", "reroute"}}) <= 1

\* C9: every step that changes the history or the stored text leaves the
\* stored text a JSON array that parses to the in-memory history.
C9_StorageRoundTrip ==
    [][(searchHistory' # searchHistory \/ storage' # storage)
          => /\ storage'.present
             /\ storage'.text # <<>>
             /\ JsonParse(storage'.text).ok
             /\ JsonParse(storage'.text).val = searchHistory']_vars

\* a record on top of a loaded history, persisted
C9_Witness ==
    /\ \E n \in DOMAIN events : events[n].type = "record"
    /\ searchHistory = <<BEth, AEth>>
    /\ storage = Stored(JsonStringify(searchHistory))
    /\ JsonParse(storage.text).val = <<BEth, AEth>>

\* C10: a search that ends in Error leaves the history and the stored text
\* as they were; once loaded, they change only by the record of a search
\* that succeeded or by a removal.
C10_ErrorLeavesHistory ==
    [][/\ (\E id \in inflight : events' = Append(events, Event("fail", id)))
             => UNCHANGED <<searchHistory, storage>>
       /\ (storage' # storage \/ (historyLoaded /\ searchHistory' # searchHistory))
             => \/ \E id \in inflight :
                      /\ events' = events \o <<Event("ok", id), Event("record", id)>>
                      /\ searchHistory' =
                            SavedHistory(searchHistory, searches[id].term)
                \/ /\ events' = events
                   /\ DropdownVisible
                   /\ \E name \in Range(searchHistory) :
                         searchHistory' = RemovedHistory(searchHistory, name)]_vars

\* a search has ended in Error while the history holds an entry
C10_Witness ==
    /\ errorOf # 0
    /\ error # Null
    /\ inflight = {}
    /\ searchHistory = <<AEth>>
    /\ storage = Stored(JsonStringify(<<AEth>>))

Latest == Len(searches)

\* a step in which performSearch is invoked
SearchStarts == Len(searches') = Len(searches) + 1

\* a step in which the fetch of invocation id settles
Settles(id) ==
    \/ events' = Append(events, Event("fail", id))
    \/ events' = events \o <<Event("ok", id), Event("record", id)>>

\* C11: while the most recently started search is in flight the state is
\* Loading: the flag is on and neither an error nor a result is set.
C11_LatestInFlightStaysLoading ==
    (Latest > 0 /\ Latest \in inflight)
        => /\ isSearching
           /\ error = Null
           /\ searchResults = Null

\* C16: the step in which a search's request completes turns Loading off and
\* leaves exactly one of Error and Success: a failure leaves an error with a
\* non-empty message, a success leaves a result.
C16_CompletionEndsInOneVariant ==
    [][\A id \in inflight :
          Settles(id)
             => /\ ~isSearching'
                /\ (error' # Null) # (searchResults' # Null)
                /\ events' = Append(events, Event("fail", id))
                      => error' # Null /\ "" \notin error'
                /\ events' # Append(events, Event("fail", id))
                      => searchResults' # Null]_vars

\* C17: every invocation has issued exactly one fetch, every fetch belongs
\* to an invocation, and a settled invocation has no request in flight.
C17_OneRequestPerSearch ==
    /\ \A id \in DOMAIN searches :
          /\ Cardinality({n \in DOMAIN events : events[n] = Event("fetch", id)}) = 1
          /\ SettledAt(id) # 0 => id \notin inflight
          /\ SettledAt(id) = 0 => id \in inflight
    /\ \A n \in DOMAIN events : events[n].id \in DOMAIN searches
    /\ inflight \subseteq DOMAIN searches

\* the only search has ended in Error, nothing is in flight and the route
\* effect has nothing left to do
C17_Witness ==
    /\ Latest = 1
    /\ errorOf = 1
    /\ error # Null
    /\ inflight = {}
    /\ routeDeps = <<pathname, initialDomain>>

\* C18: right after a search is started the state is Loading, with no
\* result, no error and the history dropdown closed.
C18_StartReplacesState ==
    [][SearchStarts
          => /\ isSearching'
             /\ error' = Null
             /\ searchResults' = Null
             /\ ~showHistory'
             /\ Latest + 1 \in inflight']_vars

\* a second search has just been started after the first ended in Error
C18_Witness ==
    /\ events = <<Event("push", 1), Event("fetch", 1), Event("fail", 1),
                  Event("push", 2), Event("fetch", 2)>>
    /\ isSearching
    /\ error = Null
    /\ searchResults = Null

\* C12: normalizing the result of a normalization changes nothing, and the
\* result of a normalization is lower-case and ends in ".eth".
C12_NormalizeIdempotent ==
    LET once == Normalize(ensName)
    IN  /\ Normalize(once) = once
        /\ ToLowerCase(once) = once
        /\ EndsWith(once, DotEth)

\* "A.e" has been normalized: lower-cased and suffixed
C12_Witness == ensName = <<"a", ".", "e", ".", "e", "t", "h">>

\* C13: a search for a non-empty raw input x sets the route to "/" followed
\* by normalize(x) and requests the lookup for normalize(x); when it succeeds,
\* normalize(x) becomes the first entry of the history, every earlier
\* case-insensitive occurrence is gone and the other entries keep their order.
C13_SearchRouteAndHistory ==
    [][/\ SearchStarts =>
            LET s == searches'[Latest + 1]
                x == Normalize(s.raw)
            IN  s.raw # <<>> =>
                    /\ s.term = x
                    /\ pathname' = Root \o EncodeSegment(x)
                    /\ DomainPage(pathname') = x
                    /\ events' = events \o <<Event("push", Latest + 1),
                                             Event("fetch", Latest + 1)>>
       /\ \A id \in inflight :
            events' = events \o <<Event("ok", id), Event("record", id)>> =>
                LET x == Normalize(searches[id].raw)
                    rest == SelectSeq(searchHistory, LAMBDA h : ToLowerCase(h) # x)
                IN  /\ Len(searchHistory') > 0
                    /\ searchHistory'[1] = x
                    /\ \A i \in 2..Len(searchHistory') : searchHistory'[i] = rest[i - 1]
                    /\ Len(searchHistory') =
                          IF Len(rest) + 1 < MAX_SEARCH_HISTORY
                          THEN Len(rest) + 1 ELSE MAX_SEARCH_HISTORY]_vars

\* "a" was submitted, looked up as "a.eth" and recorded as the only entry
C13_Witness ==
    /\ Latest = 1
    /\ searches[1].raw = <<"a">>
    /\ events = <<Event("push", 1), Event("fetch", 1), Event("ok", 1), Event("record", 1)>>
    /\ pathname = Root \o AEth
    /\ searchHistory = <<AEth>>
    /\ storage = Stored(JsonStringify(<<AEth>>))

\* the route "/a%20b" was opened: "a b.eth" was looked up and the route is
\* "/a%20b.eth", whose domain segment decodes to "a b.eth"
C13_WitnessEncoded ==
    /\ Latest > 0
    /\ searches[1].raw = <<"a", " ", "b">>
    /\ searches[1].term = <<"a", " ", "b", ".", "e", "t", "h">>
    /\ pathname = Root \o <<"a", "%", "2", "0", "b", ".", "e", "t", "h">>
    /\ searchHistory = <<searches[1].term>>

\* C14: when the persisted storage holds text that is not valid JSON, the load
\* effect completes, leaves the history the empty list, raises no error and
\* leaves the search state as it was.
C14_InvalidStorageIgnored ==
    [][(/\ ~historyLoaded
        /\ historyLoaded'
        /\ storage.present
        /\ storage.text # <<>>
        /\ ~JsonParse(storage.text).ok)
          => /\ searchHistory' = <<>>
             /\ error' = Null
             /\ UNCHANGED <<ensName, isSearching, error, searchResults,
                            showHistory, storage, pathname, initialDomain,
                            inflight, searches, events>>]_vars

\* the page has loaded over a storage holding "{" and the history is empty
C14_Witness ==
    /\ historyLoaded
    /\ storage = Stored(<<"{">>)
    /\ ~JsonParse(storage.text).ok
    /\ searchHistory = <<>>
    /\ error = Null

\* C15: a removal deletes exactly the entries that match the removed term
\* case-insensitively, keeps the other entries in their order and persists the
\* result; a removal that leaves the history empty closes the dropdown.
C15_RemoveExactlyMatching ==
    [][(histOps' = histOps + 1 /\ Len(searchHistory') < Len(searchHistory))
          => /\ \E term \in Range(searchHistory) :
                  /\ \A h \in Range(searchHistory') :
                        ToLowerCase(h) # ToLowerCase(term)
                  /\ searchHistory' =
                        SelectSeq(searchHistory,
                                  LAMBDA h : ToLowerCase(h) # ToLowerCase(term))
             /\ storage' = Stored(JsonStringify(searchHistory'))
             /\ Len(searchHistory) = 1 => searchHistory' = <<>>
             /\ searchHistory' = <<>> => ~showHistory'
             /\ searchHistory' # <<>> => showHistory' = showHistory]_vars

\* the only entry was removed from the open dropdown: the history is empty,
\* persisted as "[]", and the dropdown is closed
C15_Witness ==
    /\ histOps = 1
    /\ searchHistory = <<>>
    /\ storage = Stored(<<"[", "]">>)
    /\ ~showHistory

\* C20: the dropdown flag showHistory is true only while the history is
\* non-empty; only the toggle sets it, and only over a non-empty history; a
\* starting search clears it, as does a removal that empties the list; an
\* outside click (or the close button) clears it and changes nothing else.
C20_DropdownOnlyOverHistory ==
    [][/\ showHistory' => Len(searchHistory') > 0
       /\ (~showHistory /\ showHistory')
             => /\ Len(searchHistory) > 0
                /\ UNCHANGED <<ensName, isSearching, error, searchResults,
                               searchHistory, storage, pathname, initialDomain,
                               inflight, searches, events>>
       /\ SearchStarts => ~showHistory'
       /\ (searchHistory # <<>> /\ searchHistory' = <<>>) => ~showHistory'
       /\ (showHistory /\ ~showHistory' /\ ~SearchStarts
              /\ searchHistory' = searchHistory)
             => UNCHANGED <<ensName, isSearching, error, searchResults,
                            storage, pathname, initialDomain, inflight,
                            searches, events>>]_vars

\* the dropdown was opened over a recorded search, its only entry removed,
\* and the dropdown is closed
C20_Witness ==
    /\ \E n \in DOMAIN events : events[n].type = "record"
    /\ searchHistory = <<>>
    /\ storage = Stored(<<"[", "]">>)
    /\ ~showHistory
    /\ ~isSearching

RouteSettled == routeDeps = <<pathname, initialDomain>>

\* C19: the feedback between route changes and searches settles: a search
\* started by the route effect after a route update leaves the route where it
\* is, "/" followed by the normalized term, so the effect has nothing further
\* to run; no search started by the route effect directly follows another one;
\* and eventually no search is in flight and the effect is not pending.
C19_RouteFeedbackSettles ==
    /\ [][(SearchStarts /\ searches'[Latest + 1].entry = "reroute")
             => /\ UNCHANGED <<pathname, initialDomain>>
                /\ pathname = Root \o EncodeSegment(searches'[Latest + 1].term)
                /\ RouteSettled'
                /\ searches[Latest].entry # "reroute"]_vars
    /\ <>[](historyLoaded /\ inflight = {} /\ RouteSettled)

\* a submitted search updated the route, the route effect searched again and
\* both fetches settled: nothing is in flight and no effect is pending
C19_Witness ==
    /\ Latest = 2
    /\ searches[1].entry \in {"form", "leaderboard"}
    /\ searches[2].entry = "reroute"
    /\ searches[2].term = searches[1].term
    /\ inflight = {}
    /\ RouteSettled
    /\ pathname = Root \o EncodeSegment(searches[1].term)

====
